---- MODULE Spec2Model ----
(***************************************************************************)
(* Seat inventory and booking transaction engine of the bus-booking API    *)
(* (src/api/index.js): the book-seats, cancel-ticket, download-ticket and  *)
(* initialize-bus request handlers running concurrently against one Bus    *)
(* document and the bookings collection, with edits of the bus's fare and  *)
(* schedule made in the store meanwhile.                                   *)
(*                                                                         *)
(* A handler is asynchronous: the code between two awaits runs without     *)
(* interruption (one event loop), and every awaited storage operation      *)
(* (findById, findOne, save) takes effect on the store at one instant.     *)
(* Each action below is one such instant together with the synchronous     *)
(* code that follows it up to the next await.  A document loaded by a      *)
(* handler is a private copy; save() writes back only the paths the        *)
(* handler changed on its copy.  The clock counts milliseconds: a read of   *)
(* the time sees the value of the read before it or a later one.           *)
(*                                                                         *)
(* Further specifications cover the parts that do not share the bus: the   *)
(* search-buses and route-suggestions queries over the trips of the store  *)
(* (QuerySpec), the UPI id check of book-seats (UpiSpec), the rendering of *)
(* a ticket whose bus or user is gone (RenderSpec), and the connection     *)
(* cache with the ensureDBConnection middleware (ConnSpec, ConnLiveSpec).  *)
(***************************************************************************)
EXTENDS Integers, Sequences, FiniteSets, TLC

\* ------------------------------------------------------------- bounds
MaxRequests == 2        \* requests issued in one behaviour
MaxInFlight == 2        \* requests being handled at the same time
NumUsers == 2           \* authenticated callers

\* ---------------------------------------------------- program constants
SeatCount == 40         \* seats pushed by initialize-bus

Users == 1 .. NumUsers
Requests == 1 .. MaxRequests
NoUser == 0             \* bookedBy: null / absent
NoValue == -1           \* cancellationDate: null / absent
NoRefund == [tenths |-> NoValue, ulps |-> 0]    \* refundAmount: null / absent

\* `S${i.toString().padStart(2, '0')}`
DigitChar == <<"0", "1", "2", "3", "4", "5", "6", "7", "8", "9">>

RECURSIVE ToStr(_)
ToStr(i) == IF i < 10 THEN DigitChar[i + 1] ELSE ToStr(i \div 10) \o DigitChar[(i % 10) + 1]

RECURSIVE PadStart(_, _, _)
PadStart(s, n, c) == IF Len(s) >= n THEN s ELSE PadStart(c \o s, n, c)

SeatLabel(i) == "S" \o PadStart(ToStr(i), 2, "0")

\* The seat numbers initialize-bus pushes, in order.
NewSeats == [i \in 1 .. SeatCount |-> SeatLabel(i)]

\* Seat lists a book request may carry: one seat, another seat, both, and a
\* seat number that is on no bus.
UnknownSeat == "S99"
SeatLists == { <<SeatLabel(1)>>, <<SeatLabel(2)>>, <<SeatLabel(1), SeatLabel(2)>>, <<UnknownSeat>> }

\* All seats but the first: the seat list of the booking a nearly full bus
\* starts with.
AllButFirst == [i \in 1 .. SeatCount - 1 |-> SeatLabel(i + 1)]

\* Values of Math.floor(Math.random() * 1000) the model draws.
Randoms == {0}

\* bus.price: a fare whose refund is a whole amount and one whose refund is not.
Prices == {500, 499}

\* Dates are ISO strings ("2025-01-02T00:00:00.000Z"); NoDate is null, undefined
\* or the empty string.  new Date(s) parses an ISO date or an ISO instant and
\* gives an invalid date (NaN) for anything else.
NoDate == ""

InvalidDate(s) == Len(s) \notin {10, 24}

ParseDate(s) == IF Len(s) = 10 THEN s \o "T00:00:00.000Z" ELSE s

\* toISOString().split('T')[0]
IsoDate(d) == SubSeq(d, 1, 10)

\* journeyDate values a book request may carry: none, a date, not a date.
JourneyDates == {NoDate, "2025-01-02", "soon"}

\* The bus's schedule: departureDate (none for a recurring bus), departureTime
\* and arrivalTime.
Schedules == { [departureDate |-> NoDate, departureTime |-> "10:00", arrivalTime |-> "16:00"],
               [departureDate |-> "2025-03-04T00:00:00.000Z", departureTime |-> "11:30", arrivalTime |-> "17:30"] }

\* busId values a book request may carry: the bus's id and one of no bus.
StoredBus == "BUS1"

BusIds == {StoredBus, "BUS9"}

\* paymentMethod values of a book request that passes the UPI check.
PaymentMethods == {"card"}

VARIABLES bus, bookings, req, now, users, trips, call, conn, web

vars == <<bus, bookings, req, now, users, trips, call, conn, web>>

\* What the booking handlers and bus edits leave alone.
others == <<users, trips, call, conn, web>>

\* ----------------------------------------------------------- connection
\* The connection cache of the serverless function (require.main is not the
\* module: nothing listens and nothing exits the process).  uri: MONGODB_URI
\* is set; isConnected and connectionPromise are the module's variables
\* (connectionPromise: null, the promise of an attempt in flight, or the
\* settled promise of an attempt); readyState is
\* mongoose.connection.readyState (0 disconnected, 1 connected, 2
\* connecting); attempts counts the mongoose.connect calls in flight.
NoDb == [uri |-> TRUE, isConnected |-> FALSE, connectionPromise |-> "null", readyState |-> 0, attempts |-> 0]

ReadyDb == [NoDb EXCEPT !.isConnected = TRUE, !.connectionPromise = "fulfilled", !.readyState = 1]

\* connectDB(): what the caller gets (the connection, a promise that is
\* pending or fulfilled, or an exception) and the cache after the call.
ConnectDBWithoutCache(d) ==
  IF ~d.uri THEN [gives |-> "throws", db |-> d]
  ELSE [gives |-> "pending", db |-> [d EXCEPT !.connectionPromise = "pending", !.readyState = 2, !.attempts = @ + 1]]

ConnectDB(d) ==
  IF d.isConnected /\ d.readyState = 1 THEN [gives |-> "connection", db |-> d]
  ELSE IF d.connectionPromise # "null" THEN [gives |-> d.connectionPromise, db |-> d]
  ELSE IF ~d.uri THEN [gives |-> "throws", db |-> d]
  ELSE [gives |-> "pending", db |-> [d EXCEPT !.connectionPromise = "pending", !.readyState = 2, !.attempts = @ + 1]]

\* A request on its way through ensureDBConnection and its handler: op, its
\* place (idle, waiting for the connection, in the handler, done), left (the
\* awaited storage operations its handler has still to make), res (its
\* response), ran (next() was called for it) and ready (the connection was
\* ready when next() was called).
IdleWeb == [op |-> "none", pc |-> "idle", left |-> 0, res |-> 0, ran |-> FALSE, ready |-> FALSE]

Ops == {"book", "cancel", "search", "init", "download"}

\* The awaited storage operations of a handler that answers with success.
Awaits(op) == CASE op = "book" -> 3 [] op = "cancel" -> 4 [] op = "search" -> 1 [] op = "init" -> 2 [] op = "download" -> 1

\* next()
Handled(w, op) == [w EXCEPT !.op = op, !.pc = "handler", !.left = Awaits(op), !.ran = TRUE, !.ready = (conn.readyState = 1)]

\* The catch of ensureDBConnection answers 503.
UnavailableUnanswered(w, op) == [w EXCEPT !.op = op]

Unavailable(w, op) == [w EXCEPT !.op = op, !.pc = "done", !.res = 503]

\* A request arrives at ensureDBConnection.
EnsureDBConnection(r) ==
  /\ web[r].pc = "idle"
  /\ \E op \in Ops :
       IF conn.readyState = 1
       THEN /\ web' = [web EXCEPT ![r] = Handled(@, op)]
            /\ conn' = conn
       ELSE LET c == ConnectDB(conn)
            IN /\ conn' = c.db
               /\ web' = [web EXCEPT ![r] = CASE c.gives \in {"throws", "rejected"} -> Unavailable(@, op)
                                                [] c.gives = "pending" -> [@ EXCEPT !.op = op, !.pc = "waiting"]
                                                [] OTHER -> Handled(@, op)]
  /\ UNCHANGED <<bus, bookings, req, now, users, trips, call>>

\* mongoose.connect resolves: the then callback runs and the requests
\* awaiting the promise go on to next().
ConnectResolves ==
  /\ conn.attempts > 0
  /\ conn' = [conn EXCEPT !.isConnected = TRUE, !.readyState = 1, !.connectionPromise = "fulfilled", !.attempts = @ - 1]
  /\ web' = [r \in Requests |-> IF web[r].pc = "waiting" THEN [web[r] EXCEPT !.pc = "handler", !.left = Awaits(web[r].op), !.ran = TRUE, !.ready = TRUE] ELSE web[r]]
  /\ UNCHANGED <<bus, bookings, req, now, users, trips, call>>

\* mongoose.connect rejects (at the latest after serverSelectionTimeoutMS):
\* the catch callback runs and the requests awaiting the promise get 503.
ConnectFailedKeepingPromise(d) == [d EXCEPT !.isConnected = FALSE, !.readyState = 0, !.connectionPromise = "rejected", !.attempts = @ - 1]

ConnectFailed(d) == [d EXCEPT !.isConnected = FALSE, !.readyState = 0, !.connectionPromise = "null", !.attempts = @ - 1]

ConnectRejects ==
  /\ conn.attempts > 0
  /\ conn' = ConnectFailed(conn)
  /\ web' = [r \in Requests |-> IF web[r].pc = "waiting" THEN Unavailable(web[r], web[r].op) ELSE web[r]]
  /\ UNCHANGED <<bus, bookings, req, now, users, trips, call>>

\* The connection is lost.
ConnectionLost ==
  /\ conn.readyState = 1
  /\ conn' = [conn EXCEPT !.readyState = 0]
  /\ UNCHANGED <<bus, bookings, req, now, users, trips, call, web>>

\* An awaited storage operation of the handler resolves; after the last one
\* the handler answers with success.
StorageResolves(r) ==
  /\ web[r].pc = "handler" /\ conn.readyState = 1
  /\ web' = [web EXCEPT ![r] = IF @.left = 1 THEN [@ EXCEPT !.left = 0, !.pc = "done", !.res = 200] ELSE [@ EXCEPT !.left = @ - 1]]
  /\ UNCHANGED <<bus, bookings, req, now, users, trips, call, conn>>

\* An awaited storage operation rejects (at once without a connection, as
\* commands are not buffered; at the latest after socketTimeoutMS): the catch
\* of the handler answers 500.
StorageRejects(r) ==
  /\ web[r].pc = "handler"
  /\ web' = [web EXCEPT ![r] = [@ EXCEPT !.pc = "done", !.res = 500]]
  /\ UNCHANGED <<bus, bookings, req, now, users, trips, call, conn>>

\* The handler refuses the request (validation, not found, conflict).
HandlerRefuses(r) ==
  /\ web[r].pc = "handler"
  /\ web' = [web EXCEPT ![r] = [@ EXCEPT !.pc = "done", !.res = 400]]
  /\ UNCHANGED <<bus, bookings, req, now, users, trips, call, conn>>

\* -------------------------------------------------------------- strings
Char(s, i) == SubSeq(s, i, i)

\* The characters used, in the order of their UTF-16 code units.
CodeUnits == " (-.0123456789@ABCDEFGHIJKLMNOPQRSTUVWXYZ_abcdefghijklmnopqrstuvwxyz"

CodeUnit(c) == CHOOSE i \in 1 .. Len(CodeUnits) : Char(CodeUnits, i) = c

UpperCase == "ABCDEFGHIJKLMNOPQRSTUVWXYZ"

LowerCase == "abcdefghijklmnopqrstuvwxyz"

IsUpper(c) == \E i \in 1 .. Len(UpperCase) : Char(UpperCase, i) = c

IsLower(c) == \E i \in 1 .. Len(LowerCase) : Char(LowerCase, i) = c

IsDigit(c) == \E i \in 1 .. Len(DigitChar) : DigitChar[i] = c

IsSpace(c) == c = " "

RECURSIVE ToUpperCase(_)
ToUpperCase(s) == IF s = "" THEN ""
                  ELSE (IF IsLower(Char(s, 1)) THEN Char(UpperCase, CHOOSE i \in 1 .. Len(LowerCase) : Char(LowerCase, i) = Char(s, 1)) ELSE Char(s, 1)) \o ToUpperCase(SubSeq(s, 2, Len(s)))

\* String.prototype.trim
RECURSIVE TrimStart(_)
TrimStart(s) == IF s # "" /\ IsSpace(Char(s, 1)) THEN TrimStart(SubSeq(s, 2, Len(s))) ELSE s

RECURSIVE TrimEnd(_)
TrimEnd(s) == IF s # "" /\ IsSpace(Char(s, Len(s))) THEN TrimEnd(SubSeq(s, 1, Len(s) - 1)) ELSE s

Trim(s) == TrimEnd(TrimStart(s))

\* The default order of Array.prototype.sort: by code units, a proper prefix
\* first.
RECURSIVE StringLess(_, _)
StringLess(s, t) == IF t = "" THEN FALSE
                    ELSE IF s = "" THEN TRUE
                    ELSE IF Char(s, 1) = Char(t, 1) THEN StringLess(SubSeq(s, 2, Len(s)), SubSeq(t, 2, Len(t)))
                    ELSE CodeUnit(Char(s, 1)) < CodeUnit(Char(t, 1))

\* new RegExp(pattern, 'i'): of the special characters of patterns the
\* queries here use the opening parenthesis only, never closed, which is a
\* SyntaxError.
RegexCompiles(pattern) == \A i \in 1 .. Len(pattern) : Char(pattern, i) # "("

\* regex.test(s) for a pattern without special characters: the pattern
\* occurs in s, letter case ignored.
RegexTest(pattern, s) == \E i \in 1 .. Len(s) - Len(pattern) + 1 : ToUpperCase(SubSeq(s, i, i + Len(pattern) - 1)) = ToUpperCase(pattern)

\* parseInt: the value of the leading digits after leading blanks; NaN when
\* there is none.
NaN == NoValue

RECURSIVE ParseDigits(_, _)
ParseDigits(s, acc) == IF s # "" /\ IsDigit(Char(s, 1)) THEN ParseDigits(SubSeq(s, 2, Len(s)), 10 * acc + (CHOOSE d \in 0 .. 9 : DigitChar[d + 1] = Char(s, 1))) ELSE acc

ParseInt(s) == IF TrimStart(s) # "" /\ IsDigit(Char(TrimStart(s), 1)) THEN ParseDigits(TrimStart(s), 0) ELSE NaN

\* x || 0
OrZero(x) == IF x = NaN THEN 0 ELSE x

\* --------------------------------------------------------------- search
\* Instants are minutes since an epoch at a UTC midnight.
Day == 24 * 60

\* The host's time zone as minutes ahead of UTC: New York, UTC, Kolkata.
Offsets == {-300, 0, 330}

\* dateOnlyUTC: Date.UTC of the year, month and day that d has in the host's
\* time zone (getFullYear, getMonth, getDate).
DateOnlyUTC(d, tz) == IF d = NaN THEN NaN ELSE ((d + tz) \div Day) * Day

\* new Date(new Date().toISOString().split('T')[0]): the UTC midnight of the
\* UTC day of the instant.
UTCMidnight(d) == (d \div Day) * Day

WindowDays == 90

\* The Bus documents of the store as search sees them.
Trip(from, to, isActive, departureDate, departureTime) == [from |-> from, to |-> to, isActive |-> isActive, departureDate |-> departureDate, departureTime |-> departureTime]

Town(i) == "Town" \o ToStr(i)

TimedTrips == << Trip("Pune", "Goa", TRUE, NoValue, "11:30 PM"), Trip("Pune", "Goa", TRUE, NoValue, "TBD"), Trip("Pune", "Goa", TRUE, NoValue, "09:00 AM"),
                 Trip("Pune", "Goa", TRUE, NoValue, "12:30 PM"), Trip("Pune", "Goa", TRUE, NoValue, ""), Trip("Pune", "Goa", TRUE, NoValue, "12:15 AM") >>

DatedTrips == << Trip("Pune", "Goa", TRUE, 101 * Day, "10:00"), Trip("Pune", "Goa", TRUE, 102 * Day, "08:00"), Trip("Pune", "Goa", FALSE, NoValue, "07:00"),
                 Trip("pune city", "Panaji", TRUE, NoValue, "06:30"), Trip("Agra", "Goa", TRUE, 100 * Day, "09:30"), Trip("Pune", "North Goa", TRUE, 191 * Day, "21:45"),
                 Trip("Pune", "Goa", FALSE, 101 * Day, "05:00") >>

ManyTowns == [i \in 1 .. 14 |-> Trip(Town(IF i = 14 THEN 3 ELSE i), IF i % 2 = 0 THEN "Goa" ELSE "town hall", i # 13, NoValue, "10:00")]

TripLists == {<<>>, TimedTrips, DatedTrips, ManyTowns}

\* Query parameters of a search request.
FromQueries == {"", "pune", "Town", "Delhi", "pune ("}

ToQueries == {"", "goa", "Agra"}

DateQueries == {[given |-> FALSE, at |-> NaN], [given |-> TRUE, at |-> NaN]}
                 \cup {[given |-> TRUE, at |-> d * Day + m] : d \in {99, 100, 101, 102, 191, 192}, m \in {0, 600, 1200}}

SearchTimes == {100 * Day + m : m \in {0, 600, 1200}}

\* timeStr.trim().split(/[:\s]/)
IsTimeSeparator(c) == c = ":" \/ IsSpace(c)

RECURSIVE SplitTime(_)
SplitTime(s) == IF \E i \in 1 .. Len(s) : IsTimeSeparator(Char(s, i))
                THEN LET i == CHOOSE i \in 1 .. Len(s) : IsTimeSeparator(Char(s, i)) /\ \A j \in 1 .. i - 1 : ~IsTimeSeparator(Char(s, j))
                     IN <<SubSeq(s, 1, i - 1)>> \o SplitTime(SubSeq(s, i + 1, Len(s)))
                ELSE <<s>>

Unformatted == 9999

TimeToMinutes(timeStr) ==
  IF timeStr = "" THEN Unformatted
  ELSE LET parts == SplitTime(Trim(timeStr))
           hours == OrZero(ParseInt(parts[1]))
           minutes == IF Len(parts) >= 2 THEN OrZero(ParseInt(parts[2])) ELSE 0
           period == IF Len(parts) >= 3 THEN ToUpperCase(parts[3]) ELSE ""
       IN (IF period = "PM" /\ hours # 12 THEN hours + 12 ELSE IF period = "AM" /\ hours = 12 THEN 0 ELSE hours) * 60 + minutes

\* buses.sort((a, b) => timeToMinutes(a.departureTime) - timeToMinutes(b.departureTime)):
\* a stable sort; found is a sequence of places in the trips collection.
RECURSIVE SortByTime(_, _)
SortByTime(ts, found) ==
  IF found = <<>> THEN <<>>
  ELSE LET first == CHOOSE k \in 1 .. Len(found) : \A j \in 1 .. Len(found) :
                       \/ TimeToMinutes(ts[found[k]].departureTime) < TimeToMinutes(ts[found[j]].departureTime)
                       \/ TimeToMinutes(ts[found[k]].departureTime) = TimeToMinutes(ts[found[j]].departureTime) /\ k <= j
       IN <<found[first]>> \o SortByTime(ts, SubSeq(found, 1, first - 1) \o SubSeq(found, first + 1, Len(found)))

\* Bus.find({ from, to, isActive: true, $or: [...] }): the places of the
\* matching trips, in the order of the collection.
RECURSIVE Places1(_)
Places1(n) == IF n = 0 THEN <<>> ELSE Append(Places1(n - 1), n)

TripMatches(trip, fromRegex, toRegex, start, end) ==
  /\ RegexTest(fromRegex, trip.from) /\ RegexTest(toRegex, trip.to)
  /\ trip.isActive
  /\ \/ trip.departureDate # NoValue /\ trip.departureDate >= start /\ trip.departureDate < end
     \/ trip.departureDate = NoValue

FindTrips(ts, fromRegex, toRegex, start, end) == SelectSeq(Places1(Len(ts)), LAMBDA i : TripMatches(ts[i], fromRegex, toRegex, start, end))

\* A call of a query handler (one in a behaviour): its parameters, the host's time zone and clock,
\* and its response (found: the places of the trips returned, in order;
\* routes: the strings returned, in order).
NoCall == [op |-> "none", tz |-> 0, at |-> 0, from |-> "", to |-> "", date |-> [given |-> FALSE, at |-> NaN], q |-> "", type |-> "", upiId |-> "", res |-> 0, err |-> "", found |-> <<>>, routes |-> <<>>]

SearchResponse(c, ts) ==
  LET start == DateOnlyUTC(c.date.at, c.tz)
      today == DateOnlyUTC(UTCMidnight(c.at), c.tz)
      tomorrow == today + Day
      maxDate == tomorrow + WindowDays * Day
      end == start + Day
  IN IF c.from = "" \/ c.to = "" \/ ~c.date.given THEN [c EXCEPT !.res = 400, !.err = "missing"]
     ELSE IF start = NaN THEN [c EXCEPT !.res = 400, !.err = "invalid"]
     ELSE IF start <= today THEN [c EXCEPT !.res = 400, !.err = "early"]
     ELSE IF start > maxDate THEN [c EXCEPT !.res = 400, !.err = "late"]
     ELSE IF ~RegexCompiles(Trim(c.from)) \/ ~RegexCompiles(Trim(c.to)) THEN [c EXCEPT !.res = 500, !.err = "error"]
     ELSE [c EXCEPT !.res = 200, !.found = SortByTime(ts, FindTrips(ts, Trim(c.from), Trim(c.to), start, end))]

SearchBuses == /\ call = NoCall
               /\ \E tz \in Offsets : \E at \in SearchTimes : \E from \in FromQueries : \E to \in ToQueries : \E date \in DateQueries :
                    call' = SearchResponse([NoCall EXCEPT !.op = "search", !.tz = tz, !.at = at, !.from = from, !.to = to, !.date = date], trips)
               /\ UNCHANGED <<bus, bookings, req, now, users, trips, conn, web>>

\* Bus.distinct(field, { [field]: regex, isActive: true }): the values of the
\* field on the active trips whose value matches.
DistinctOfAnyTrip(ts, field, regex) == {ts[i][field] : i \in {j \in 1 .. Len(ts) : RegexTest(regex, ts[j][field])}}

Distinct(ts, field, regex) == {ts[i][field] : i \in {j \in 1 .. Len(ts) : ts[j].isActive /\ RegexTest(regex, ts[j][field])}}

\* routes.sort()
RECURSIVE SortStrings(_)
SortStrings(S) == IF S = {} THEN <<>>
                  ELSE LET least == CHOOSE s \in S : \A t \in S \ {s} : StringLess(s, t)
                       IN <<least>> \o SortStrings(S \ {least})

SuggestionLimit == 10

\* Array.prototype.slice(0, n)
Slice(s, n) == SubSeq(s, 1, IF Len(s) < n THEN Len(s) ELSE n)

\* Query parameters of a suggestions request; a type other than 'from' and
\* 'to' asks for both.
Queries == {"", "  ", "town", " o", "Zz", "13", "a ("}

Types == {"from", "to", ""}

RouteSuggestionsResponse(c, ts) ==
  LET query == Trim(c.q)
  IN IF c.q = "" \/ Len(Trim(c.q)) = 0 THEN [c EXCEPT !.res = 200, !.routes = <<>>]
     ELSE IF ~RegexCompiles(query) THEN [c EXCEPT !.res = 500, !.err = "error"]
     ELSE LET routes == IF c.type = "from" THEN Distinct(ts, "from", query)
                        ELSE IF c.type = "to" THEN Distinct(ts, "to", query)
                        ELSE Distinct(ts, "from", query) \cup Distinct(ts, "to", query)
          IN [c EXCEPT !.res = 200, !.routes = Slice(SortStrings(routes), SuggestionLimit)]

RouteSuggestions == /\ call = NoCall
                    /\ \E q \in Queries : \E type \in Types :
                         call' = RouteSuggestionsResponse([NoCall EXCEPT !.op = "suggest", !.q = q, !.type = type], trips)
                    /\ UNCHANGED <<bus, bookings, req, now, users, trips, conn, web>>

\* ------------------------------------------------------------ documents
\* The Bus document.  seats is the length of its seats array; the array is
\* filled by initialize-bus only, so the seat at place i carries the seat
\* number SeatNumber(i).  isBooked is the set of places whose seat has
\* isBooked true, bookedBy[u] the set of places whose seat has bookedBy = u (a
\* place in no bookedBy[u] has bookedBy null or absent).  v is the document
\* version (__v).
SeatNumber(i) == NewSeats[((i - 1) % SeatCount) + 1]

Places(b) == 1 .. b.seats

NobodyBooked == [u \in Users |-> {}]

NoBus == [seats |-> 0, isBooked |-> {}, bookedBy |-> NobodyBooked, availableSeats |-> 0, v |-> -1, price |-> 0, departureDate |-> NoDate, departureTime |-> "", arrivalTime |-> ""]

\* Array.prototype.findIndex(s => s.seatNumber === n): first place, 0 for -1.
FindIndex(b, n) == IF \E i \in Places(b) : SeatNumber(i) = n THEN CHOOSE i \in Places(b) : SeatNumber(i) = n /\ \A j \in 1 .. i - 1 : SeatNumber(j) # n ELSE 0

\* The places findIndex resolves a list of seat numbers to.
FoundPlaces(b, seats) == {FindIndex(b, seats[k]) : k \in 1 .. Len(seats)} \ {0}

Range(s) == {s[i] : i \in 1 .. Len(s)}

OpenSeats(b) == {SeatNumber(i) : i \in Places(b) \ b.isBooked}

\* ------------------------------------------------------------- requests
\* A request: its inputs (op, user, seats, ticket, busId, journeyDate,
\* paymentMethod; flaw, the input a check rejected), its place in the handler (pc), the documents it
\* loaded (lbus; lbk, the place of the loaded booking, and lcan, that
\* booking's isCancelled), the date it read (time), the refund it computed
\* (refund, returned with a 200 response), the journey date it printed on the
\* ticket (shown) and its response (res, err;
\* conflict, the place in the seat list of the seat the response names).  On
\* record for the properties: sawBooked and sawMissing (a requested seat was
\* booked on, or absent from, the bus as loaded), made (the booking whose save took effect), wrote (its bus save
\* took effect), with (the requests in flight when it arrived) and last (it
\* arrived asking for exactly the one open seat of the bus).
IdleReq == [op |-> "none", pc |-> "idle", user |-> NoUser, seats |-> <<>>, ticket |-> "", busId |-> "", journeyDate |-> NoDate, paymentMethod |-> "", flaw |-> "none", lbus |-> NoBus, lbk |-> 0, lcan |-> FALSE, time |-> NoValue, refund |-> NoRefund, shown |-> NoDate, res |-> 0, err |-> "", conflict |-> 0, sawBooked |-> FALSE, sawMissing |-> FALSE, made |-> 0, wrote |-> FALSE, with |-> {}, last |-> FALSE]

InFlight == {r \in Requests : req[r].pc \notin {"idle", "done"}}

\* Requests are issued in order of their number.
CanStart(r) == /\ req[r].pc = "idle"
               /\ \A q \in 1 .. r - 1 : req[q].pc # "idle"
               /\ Cardinality(InFlight) < MaxInFlight

\* Callers are interchangeable: a request comes from a caller seen before or
\* from the next new one.
UsersSeen == ({req[q].user : q \in Requests} \ {NoUser}) \cup {bookings[i].user : i \in 1 .. Len(bookings)}

Callers == {u \in Users : u = 1 \/ u - 1 \in UsersSeen}

\* The response ends the request: its loaded documents are dropped, its inputs
\* and what it did stay on record.
Respond(r, code, why) == [req EXCEPT ![r].pc = "done", ![r].res = code, ![r].err = why, ![r].lbus = NoBus, ![r].time = NoValue, ![r].busId = "", ![r].journeyDate = NoDate, ![r].paymentMethod = ""]

\* --------------------------------------------------------------- Init
\* The store before the requests of a behaviour arrive.  The bus has its
\* seats with none booked, or is nearly full (an earlier request of caller 1
\* booked all seats but the first), or is not yet initialized (no seats).  The
\* counter agrees with the seat map in each.
EmptyBus(p, s) == [seats |-> 0, isBooked |-> {}, bookedBy |-> NobodyBooked, availableSeats |-> 0, v |-> 0, price |-> p, departureDate |-> s.departureDate, departureTime |-> s.departureTime, arrivalTime |-> s.arrivalTime]

FreshBus(p, s) == [EmptyBus(p, s) EXCEPT !.seats = SeatCount, !.availableSeats = SeatCount, !.v = 1]

NearlyFullBus(p, s) == [FreshBus(p, s) EXCEPT !.isBooked = 2 .. SeatCount, !.bookedBy = [u \in Users |-> IF u = 1 THEN 2 .. SeatCount ELSE {}], !.availableSeats = 1]

\* Date.now() / new Date(): the millisecond of the last read, or the next.
ClockReads == {now, now + 1}

\* The insert of a new booking into the bookings collection: the collection
\* takes every document.
InsertBooking(bks, b) == Append(bks, b)

\* ---------------------------------------------------------------- saves
\* The paths of a loaded Bus document that differ from what was loaded are
\* its modified paths; save() sets exactly those on the stored document.
Differ(s, t) == (s \ t) \cup (t \ s)

IsBookedModified(before, after) == Differ(before.isBooked, after.isBooked)

BookedByModified(before, after) == UNION {Differ(before.bookedBy[u], after.bookedBy[u]) : u \in Users}

SaveSeats(db, before, after) == [db EXCEPT !.isBooked = (@ \ IsBookedModified(before, after)) \cup (after.isBooked \cap IsBookedModified(before, after)),
                                           !.bookedBy = [u \in Users |-> (@[u] \ BookedByModified(before, after)) \cup (after.bookedBy[u] \cap BookedByModified(before, after))]]

\* A save that sets a path inside the seats array carries the loaded version
\* in its condition and fails (VersionError) when the stored version differs.
VersionConflict(db, before, after) == IsBookedModified(before, after) \cup BookedByModified(before, after) # {} /\ db.v # before.v

SaveBus(db, before, after) == [SaveSeats(db, before, after) EXCEPT !.availableSeats = IF after.availableSeats # before.availableSeats THEN after.availableSeats ELSE db.availableSeats]

\* ------------------------------------------------------ book-seats
\* The availability check: the first requested seat that is found on the
\* loaded bus and is booked there (0 when the loop finds none).
SeatUnavailable(lbus, n) == LET i == FindIndex(lbus, n) IN i # 0 /\ i \in lbus.isBooked

FirstConflictHeadOnly(lbus, seats) == IF SeatUnavailable(lbus, seats[1]) THEN 1 ELSE 0

FirstConflict(lbus, seats) == IF \E k \in 1 .. Len(seats) : SeatUnavailable(lbus, seats[k]) THEN CHOOSE k \in 1 .. Len(seats) : SeatUnavailable(lbus, seats[k]) /\ \A j \in 1 .. k - 1 : ~SeatUnavailable(lbus, seats[j]) ELSE 0

\* 'TICKET' + Date.now() + Math.floor(Math.random() * 1000)
GenerateTicketId(ms, rnd) == "TICKET" \o ToStr(ms) \o ToStr(rnd)

TotalAmountOfOneSeat(seats, lbus) == lbus.price

TotalAmount(seats, lbus) == Len(seats) * lbus.price

\* The journey date of a new booking: the request's journeyDate, else the
\* loaded bus's departureDate, else none.
JourneyDateVal(journeyDate, lbus) == IF journeyDate # NoDate THEN ParseDate(journeyDate) ELSE lbus.departureDate

JourneyDateISO(journeyDate, lbus) == IF JourneyDateVal(journeyDate, lbus) # NoDate THEN IsoDate(JourneyDateVal(journeyDate, lbus)) ELSE NoDate

\* new Booking({...}): the fields the handler sets; the others start unset.
Booking(ticketId, user, busId, seats, lbus, paymentMethod, journeyDate) ==
  [ticketId |-> ticketId, user |-> user, bus |-> busId, seats |-> seats, totalAmount |-> TotalAmount(seats, lbus), paymentMethod |-> paymentMethod,
   status |-> "confirmed", paymentStatus |-> "", isCancelled |-> FALSE, refundAmount |-> NoRefund, cancellationDate |-> NoValue,
   journeyDate |-> JourneyDateVal(journeyDate, lbus), journeyDateISO |-> JourneyDateISO(journeyDate, lbus),
   departureTimeSnapshot |-> lbus.departureTime, arrivalTimeSnapshot |-> lbus.arrivalTime]

NewBooking(r) == Booking(req[r].ticket, req[r].user, req[r].busId, req[r].seats, req[r].lbus, req[r].paymentMethod, req[r].journeyDate)

\* The booking a nearly full bus starts with: caller 1 booked all seats but
\* the first, without a journeyDate of their own.
EarlierBooking(b) == Booking("TICKET00", 1, StoredBus, AllButFirst, b, "card", NoDate)

\* The update loop on the loaded bus: every requested seat that is found is
\* marked booked by the caller; the counter drops by the length of the list.
BookedBus(lbus, seats, u) == [lbus EXCEPT !.isBooked = @ \cup FoundPlaces(lbus, seats),
                                          !.bookedBy = [w \in Users |-> IF w = u THEN @[w] \cup FoundPlaces(lbus, seats) ELSE @[w] \ FoundPlaces(lbus, seats)],
                                          !.availableSeats = @ - Len(seats)]

Init == /\ \E p \in Prices : \E s \in {x \in Schedules : x.departureDate = NoDate} :
             \/ bus = FreshBus(p, s) /\ bookings = <<>>
             \/ bus = NearlyFullBus(p, s) /\ bookings = <<EarlierBooking(NearlyFullBus(p, s))>>
             \/ bus = EmptyBus(p, s) /\ bookings = <<>>
        /\ req = [r \in Requests |-> IdleReq]
        /\ now = 0
        /\ users = Users
        /\ conn = ReadyDb
        /\ web = [r \in Requests |-> IdleWeb]
        /\ trips = <<>>
        /\ call = NoCall

\* Request arrives; the e-mail and UPI checks come before any storage access
\* and before the seat list is looked at.
BookArrives(r, seatLists) ==
  /\ CanStart(r)
  /\ \E u \in Callers : \E sl \in seatLists : \E flaw \in {"none", "email", "upi"} :
       req' = [req EXCEPT ![r] = IF flaw # "none"
                                 THEN [IdleReq EXCEPT !.op = "book", !.flaw = flaw, !.pc = "done", !.res = 400, !.err = "validation"]
                                 ELSE [IdleReq EXCEPT !.op = "book", !.user = u, !.seats = sl, !.pc = "findBus", !.with = InFlight, !.last = (Len(sl) = 1 /\ OpenSeats(bus) = {sl[1]})]]
  /\ UNCHANGED <<others, bus, bookings, now>>

BookStart(r) == BookArrives(r, SeatLists)

\* Seat lists with a seat number twice or with a seat number not on the bus,
\* and two plain lists with no seat in common.
OddSeatLists == { <<SeatLabel(1), SeatLabel(1)>>, <<UnknownSeat, SeatLabel(2)>>, <<SeatLabel(1), UnknownSeat>>, <<SeatLabel(2), SeatLabel(3)>>, <<SeatLabel(1)>> }

BookStartOdd(r) == BookArrives(r, OddSeatLists)

\* return res.status(code).json({ error }): the handler ends with the
\* response; flaw names the input that was refused.
RejectedWithoutReturn(q, code, why, flaw) == [q EXCEPT !.res = code, !.err = why, !.flaw = flaw, !.journeyDate = NoDate]

Rejected(q, code, why, flaw) == [q EXCEPT !.pc = "done", !.res = code, !.err = why, !.flaw = flaw, !.lbus = NoBus, !.time = NoValue, !.ticket = "", !.busId = "", !.journeyDate = NoDate, !.paymentMethod = ""]

\* Bus.findById resolves (the request's busId, journeyDate and paymentMethod
\* are first used from here on): no such bus, else the availability check, the
\* ticket id, the journey date (it parses or does not); the booking document
\* is built and its save is issued.
BookFindBus(r) == /\ req[r].op = "book" /\ req[r].pc = "findBus"
                  /\ \E busId \in BusIds :
                       IF busId # StoredBus
                       THEN /\ req' = [req EXCEPT ![r] = Rejected(@, 404, "notfound", "bus")]
                            /\ now' = now
                       ELSE LET conflict == FirstConflict(bus, req[r].seats)
                                seen == [req EXCEPT ![r].sawBooked = \E k \in 1 .. Len(req[r].seats) : SeatUnavailable(bus, req[r].seats[k]),
                                                    ![r].sawMissing = \E k \in 1 .. Len(req[r].seats) : FindIndex(bus, req[r].seats[k]) = 0]
                            IN IF conflict # 0
                               THEN /\ req' = [seen EXCEPT ![r].pc = "done", ![r].res = 400, ![r].err = "conflict", ![r].conflict = conflict]
                                    /\ now' = now
                               ELSE \E rnd \in Randoms : \E journeyDate \in JourneyDates : \E paymentMethod \in (IF req[r].paymentMethod = "" THEN PaymentMethods ELSE {req[r].paymentMethod}) :
                                      /\ now' \in ClockReads
                                      /\ LET built == [seen EXCEPT ![r].lbus = bus, ![r].busId = busId, ![r].journeyDate = journeyDate, ![r].paymentMethod = paymentMethod,
                                                                   ![r].ticket = GenerateTicketId(now', rnd), ![r].pc = "saveBooking"]
                                         IN req' = IF journeyDate # NoDate /\ InvalidDate(journeyDate)
                                                   THEN [built EXCEPT ![r] = Rejected(@, 400, "validation", "date")]
                                                   ELSE built
                  /\ UNCHANGED <<others, bus, bookings>>

\* booking.save() takes effect; the loaded bus is updated and its save issued.
BookSaveBooking(r) == /\ req[r].op = "book" /\ req[r].pc = "saveBooking"
                      /\ bookings' = InsertBooking(bookings, NewBooking(r))
                      /\ req' = [req EXCEPT ![r].made = Len(bookings) + 1, ![r].pc = "saveBus"]
                      /\ UNCHANGED <<others, bus, now>>

\* bus.save() takes effect (or is refused on a version mismatch).
BookSaveBus(r) == /\ req[r].op = "book" /\ req[r].pc = "saveBus"
                  /\ LET before == req[r].lbus
                         after == BookedBus(before, req[r].seats, req[r].user)
                     IN IF VersionConflict(bus, before, after)
                        THEN /\ req' = Respond(r, 500, "version")
                             /\ bus' = bus
                        ELSE /\ bus' = SaveBus(bus, before, after)
                             /\ req' = [Respond(r, 201, "") EXCEPT ![r].wrote = TRUE]
                  /\ UNCHANGED <<others, bookings, now>>

\* Any awaited storage operation may reject; the handler's catch answers 500.
StorageFailure(r) == /\ r \in InFlight
                     /\ req' = Respond(r, 500, "storage")
                     /\ UNCHANGED <<others, bus, bookings, now>>

\* ------------------------------------------------------ UPI payment
\* /^[a-zA-Z0-9.\-_]{2,256}@[a-zA-Z]{2,64}$/
IsLocalChar(c) == IsUpper(c) \/ IsLower(c) \/ IsDigit(c) \/ c = "." \/ c = "-" \/ c = "_"

IsLetter(c) == IsUpper(c) \/ IsLower(c)

UpiRegexTestUnbounded(s) == \E i \in 1 .. Len(s) : /\ Char(s, i) = "@"
                                                   /\ i - 1 >= 1 /\ \A j \in 1 .. i - 1 : IsLocalChar(Char(s, j))
                                                   /\ Len(s) - i >= 1 /\ \A j \in i + 1 .. Len(s) : IsLetter(Char(s, j))

UpiRegexTest(s) == \E i \in 1 .. Len(s) : /\ Char(s, i) = "@"
                                          /\ i - 1 \in 2 .. 256 /\ \A j \in 1 .. i - 1 : IsLocalChar(Char(s, j))
                                          /\ Len(s) - i \in 2 .. 64 /\ \A j \in i + 1 .. Len(s) : IsLetter(Char(s, j))

IsValidUPI(upiId) == upiId # "" /\ UpiRegexTest(Trim(upiId))

\* The check of the book handler: the id is required and must be valid when
\* the payment method is upi.
UpiRejected(paymentMethod, upiId) == paymentMethod = "upi" /\ (upiId = "" \/ Trim(upiId) = "" \/ ~IsValidUPI(Trim(upiId)))

\* The UPI ids tried: every string of up to MaxUpiLen characters of
\* UpiAlphabet, the ids at the length limits, and some more.
MaxUpiLen == 5

UpiAlphabet == {"a", "1", ".", "@", " "}

RECURSIVE StringsUpTo(_)
StringsUpTo(n) == IF n = 0 THEN {""} ELSE StringsUpTo(n - 1) \cup {s \o c : s \in StringsUpTo(n - 1), c \in UpiAlphabet}

RECURSIVE Repeat(_, _)
Repeat(c, n) == IF n = 0 THEN "" ELSE IF n = 1 THEN c ELSE Repeat(c, n \div 2) \o Repeat(c, n - n \div 2)

UpiIds == StringsUpTo(MaxUpiLen)
            \cup {"alice@upi", "bob.smith@paytm", "alice", "@upi", "alice@", " alice@upi ", "Al_i-ce9@okAXIS", "alice@upi2", "al ice@upi", "al(ice@upi", "alice@@upi", "alice@u.pi"}
            \cup {Repeat("a", n) \o "@upi" : n \in {255, 256, 257}} \cup {"alice@" \o Repeat("b", n) : n \in {63, 64, 65}}

\* A book request paying by UPI arrives, with the UPI id under test.
BookStartUPI(r) == /\ CanStart(r)
                   /\ \E u \in Callers : \E sl \in SeatLists :
                        req' = [req EXCEPT ![r] = IF UpiRejected("upi", call.upiId)
                                                  THEN [IdleReq EXCEPT !.op = "book", !.paymentMethod = "upi", !.flaw = "upi", !.pc = "done", !.res = 400, !.err = "validation"]
                                                  ELSE [IdleReq EXCEPT !.op = "book", !.paymentMethod = "upi", !.user = u, !.seats = sl, !.pc = "findBus", !.with = InFlight, !.last = (Len(sl) = 1 /\ OpenSeats(bus) = {sl[1]})]]
                   /\ UNCHANGED <<others, bus, bookings, now>>

\* ---------------------------------------------------- cancel-ticket
\* Booking.findOne({ ticketId, user }): the first stored booking that matches
\* (0 when there is none).
FindBookingOfAnyUser(bks, t, u) == IF \E i \in 1 .. Len(bks) : bks[i].ticketId = t THEN CHOOSE i \in 1 .. Len(bks) : bks[i].ticketId = t /\ \A j \in 1 .. i - 1 : bks[j].ticketId # t ELSE 0

FindBooking(bks, t, u) == IF \E i \in 1 .. Len(bks) : bks[i].ticketId = t /\ bks[i].user = u THEN CHOOSE i \in 1 .. Len(bks) : bks[i].ticketId = t /\ bks[i].user = u /\ \A j \in 1 .. i - 1 : ~(bks[j].ticketId = t /\ bks[j].user = u) ELSE 0

\* booking.totalAmount * 0.8 in double-precision arithmetic.  The literal 0.8
\* is the double 0.8 * (1 + 2^-54); the product of the whole number total with
\* it is total * 0.8 * (1 + 2^-54) rounded to the nearest double (53 bits, ties
\* to even).  With 2^k <= 0.8 * total < 2^(k+1), one unit in the last place is
\* 2^(k-52); the exact value 0.8 * total lies r/5 of a unit above a double,
\* r = 4 * total * 2^(52-k) mod 5 (2^4 mod 5 = 1), and the product lies
\* (r + total / 2^k) / 5 of a unit above that double.  The result is the double
\* nearest to 0.8 * total (ulps 0) or the next one above it (ulps 1).
Exponent(total) == CHOOSE k \in 0 .. 20 : 5 * 2^k <= 4 * total /\ 4 * total < 5 * 2^(k + 1)

FifthsAbove(total) == (4 * total * 2^((52 - Exponent(total)) % 4)) % 5

RefundAmountExact(total) == [tenths |-> 8 * total, ulps |-> 0]

RefundAmount(total) == [tenths |-> 8 * total, ulps |-> IF FifthsAbove(total) = 2 \/ (FifthsAbove(total) = 1 /\ 2 * total >= 3 * 2^Exponent(total)) THEN 1 ELSE 0]

AlreadyCancelledNever(b) == FALSE

AlreadyCancelled(b) == b.isCancelled

CancelledBookingWithoutSeats(b, t) == [b EXCEPT !.isCancelled = TRUE, !.status = "cancelled", !.paymentStatus = "refunded", !.refundAmount = RefundAmount(b.totalAmount), !.cancellationDate = t, !.seats = <<>>]

CancelledBooking(b, t) == [b EXCEPT !.isCancelled = TRUE, !.status = "cancelled", !.paymentStatus = "refunded", !.refundAmount = RefundAmount(b.totalAmount), !.cancellationDate = t]

\* The release loop on the loaded bus: every seat of the booking that is found
\* is freed; the counter rises by the length of the booking's seat list.
ReleasedBusCountingFound(lbus, seats) == [lbus EXCEPT !.isBooked = @ \ FoundPlaces(lbus, seats),
                                                     !.bookedBy = [w \in Users |-> @[w] \ FoundPlaces(lbus, seats)],
                                                     !.availableSeats = @ + Cardinality(FoundPlaces(lbus, seats))]

ReleasedBus(lbus, seats) == [lbus EXCEPT !.isBooked = @ \ FoundPlaces(lbus, seats),
                                        !.bookedBy = [w \in Users |-> @[w] \ FoundPlaces(lbus, seats)],
                                        !.availableSeats = @ + Len(seats)]

\* Ticket ids a cancel request may carry: those of the stored bookings and one
\* that no booking has.
UnknownTicket == "TICKET"

TicketIdsKnown == {bookings[i].ticketId : i \in 1 .. Len(bookings)}

CancelStart(r) == /\ CanStart(r)
                  /\ \E u \in Callers : \E t \in TicketIdsKnown \cup {UnknownTicket} :
                       req' = [req EXCEPT ![r] = [IdleReq EXCEPT !.op = "cancel", !.user = u, !.ticket = t, !.pc = "findBooking", !.with = InFlight]]
                  /\ UNCHANGED <<others, bus, bookings, now>>

\* findOne resolves; the isCancelled gate; the loaded booking is marked
\* cancelled with the refund and the current date, and its save is issued.
CancelFindBooking(r) == /\ req[r].op = "cancel" /\ req[r].pc = "findBooking"
                        /\ LET i == FindBooking(bookings, req[r].ticket, req[r].user)
                           IN IF i = 0
                              THEN req' = Respond(r, 404, "notfound") /\ now' = now
                              ELSE IF AlreadyCancelled(bookings[i])
                                   THEN req' = [Respond(r, 400, "cancelled") EXCEPT ![r].lbk = i, ![r].lcan = bookings[i].isCancelled] /\ now' = now
                                   ELSE /\ now' \in ClockReads
                                        /\ req' = [req EXCEPT ![r].lbk = i, ![r].lcan = bookings[i].isCancelled, ![r].time = now', ![r].refund = RefundAmount(bookings[i].totalAmount), ![r].pc = "saveBooking"]
                        /\ UNCHANGED <<others, bus, bookings>>

\* booking.save() takes effect; Bus.findById is issued.
CancelSaveBooking(r) == /\ req[r].op = "cancel" /\ req[r].pc = "saveBooking"
                        /\ bookings' = [bookings EXCEPT ![req[r].lbk] = CancelledBooking(@, req[r].time)]
                        /\ req' = [req EXCEPT ![r].made = req[r].lbk, ![r].pc = "findBus"]
                        /\ UNCHANGED <<others, bus, now>>

\* Bus.findById resolves; the seats are released on the loaded bus and its
\* save is issued.
CancelFindBus(r) == /\ req[r].op = "cancel" /\ req[r].pc = "findBus"
                    /\ req' = [req EXCEPT ![r].lbus = bus, ![r].pc = "saveBus"]
                    /\ UNCHANGED <<others, bus, bookings, now>>

\* bus.save() takes effect (or is refused on a version mismatch).
CancelSaveBus(r) == /\ req[r].op = "cancel" /\ req[r].pc = "saveBus"
                    /\ LET before == req[r].lbus
                           after == ReleasedBus(before, bookings[req[r].lbk].seats)
                       IN IF VersionConflict(bus, before, after)
                          THEN /\ req' = Respond(r, 500, "version")
                               /\ bus' = bus
                          ELSE /\ bus' = SaveBus(bus, before, after)
                               /\ req' = [Respond(r, 200, "") EXCEPT ![r].wrote = TRUE]
                    /\ UNCHANGED <<others, bookings, now>>

\* -------------------------------------------------- download-ticket
\* The journey date printed on the ticket: the booking's journeyDateISO, else
\* the date of the departureDate of the booking's bus as populated, else
\* nothing.
DepDateISO(booking, lbus) == IF booking.journeyDateISO # NoDate THEN booking.journeyDateISO
                             ELSE IF lbus.departureDate # NoDate THEN IsoDate(lbus.departureDate) ELSE NoDate

\* populate('bus') / populate('user'): a reference to a document that is not
\* in the store is populated with null.  The bus column reads
\* booking.bus.busName and the passenger column booking.user.name; reading a
\* property of null throws and the catch answers 500.
Unresolved(booking) == IF bus = NoBus THEN "bus" ELSE IF booking.user \notin users THEN "user" ELSE "none"

DownloadStart(r) == /\ CanStart(r)
                    /\ \E u \in Callers : \E t \in TicketIdsKnown \cup {UnknownTicket} :
                         req' = [req EXCEPT ![r] = [IdleReq EXCEPT !.op = "download", !.user = u, !.ticket = t, !.pc = "findBooking", !.with = InFlight]]
                    /\ UNCHANGED <<others, bus, bookings, now>>

\* findOne with its populate resolves; the ticket is rendered from the
\* booking and its bus.
DownloadFindBooking(r) == /\ req[r].op = "download" /\ req[r].pc = "findBooking"
                          /\ LET i == FindBooking(bookings, req[r].ticket, req[r].user)
                             IN req' = IF i = 0
                                       THEN Respond(r, 404, "notfound")
                                       ELSE IF Unresolved(bookings[i]) # "none"
                                            THEN [Respond(r, 500, "render") EXCEPT ![r].lbk = i, ![r].flaw = Unresolved(bookings[i])]
                                            ELSE [Respond(r, 200, "") EXCEPT ![r].lbk = i, ![r].shown = DepDateISO(bookings[i], bus)]
                          /\ UNCHANGED <<others, bus, bookings, now>>

\* --------------------------------------------------- initialize-bus
\* bus.seats.length === 0
NeedsSeatsAlways(b) == TRUE

NeedsSeats(b) == b.seats = 0

InitStart(r) == /\ CanStart(r)
                /\ req' = [req EXCEPT ![r] = [IdleReq EXCEPT !.op = "init", !.pc = "findBus", !.with = InFlight]]
                /\ UNCHANGED <<others, bus, bookings, now>>

\* Bus.findById resolves; seats are pushed only onto an empty seat list.
InitFindBus(r) == /\ req[r].op = "init" /\ req[r].pc = "findBus"
                  /\ req' = IF NeedsSeats(bus) THEN [req EXCEPT ![r].lbus = bus, ![r].pc = "saveBus"] ELSE Respond(r, 200, "")
                  /\ UNCHANGED <<others, bus, bookings, now>>

\* bus.save() takes effect: the pushed seats are appended to the stored list
\* and the version is incremented.
InitSaveBus(r) == /\ req[r].op = "init" /\ req[r].pc = "saveBus"
                  /\ bus' = [bus EXCEPT !.seats = @ + Len(NewSeats), !.v = @ + 1]
                  /\ req' = [Respond(r, 200, "") EXCEPT ![r].wrote = TRUE]
                  /\ UNCHANGED <<others, bookings, now>>

\* ------------------------------------------------------- bus edits
\* The operator edits the fare or the schedule of the bus in the store; the
\* seats, the counter and the version are not touched.  The edits made here
\* raise the fare or give a recurring bus its date and times.
EditBus == /\ \E p \in Prices : \E s \in Schedules :
                /\ p >= bus.price
                /\ bus.departureDate # NoDate => s.departureDate = bus.departureDate
                /\ bus' = [bus EXCEPT !.price = p, !.departureDate = s.departureDate, !.departureTime = s.departureTime, !.arrivalTime = s.arrivalTime]
           /\ bus' # bus
           /\ UNCHANGED <<others, bookings, req, now>>

\* ------------------------------------------------- deleted documents
\* The operator deletes the Bus document, or a User document, from the store;
\* the bookings that refer to it stay.
DeleteBus == /\ bus # NoBus
             /\ bus' = NoBus
             /\ UNCHANGED <<bookings, req, now, users, trips, call, conn, web>>

DeleteUser == /\ \E u \in users : users' = users \ {u}
              /\ UNCHANGED <<bus, bookings, req, now, trips, call, conn, web>>

\* ------------------------------------------------------------- Next
HandlerStep == \E r \in Requests :
                 \/ BookStart(r)
                 \/ BookFindBus(r)
                 \/ BookSaveBooking(r)
                 \/ BookSaveBus(r)
                 \/ CancelStart(r)
                 \/ CancelFindBooking(r)
                 \/ CancelSaveBooking(r)
                 \/ CancelFindBus(r)
                 \/ CancelSaveBus(r)
                 \/ DownloadStart(r)
                 \/ DownloadFindBooking(r)
                 \/ InitStart(r)
                 \/ InitFindBus(r)
                 \/ InitSaveBus(r)
                 \/ StorageFailure(r)

Next == HandlerStep \/ EditBus

Spec == Init /\ [][Next]_vars

\* download-ticket requests against a store that holds a booking and from
\* which the bus or a user may be deleted.
RenderInit == /\ \E p \in Prices : \E s \in Schedules : bus = NearlyFullBus(p, s) /\ bookings = <<EarlierBooking(NearlyFullBus(p, s))>>
              /\ req = [r \in Requests |-> IdleReq]
              /\ now = 0
              /\ users = Users
              /\ conn = ReadyDb
              /\ web = [r \in Requests |-> IdleWeb]
              /\ trips = <<>>
              /\ call = NoCall

RenderNext == \/ \E r \in Requests : DownloadStart(r) \/ DownloadFindBooking(r)
              \/ DeleteBus
              \/ DeleteUser

RenderSpec == RenderInit /\ [][RenderNext]_vars

\* The query handlers (search-buses, route-suggestions) against a collection
\* of trips that does not change meanwhile.
QueryInit == /\ bus = NoBus /\ bookings = <<>>
             /\ req = [r \in Requests |-> IdleReq]
             /\ now = 0
             /\ users = Users
             /\ conn = ReadyDb
             /\ web = [r \in Requests |-> IdleWeb]
             /\ trips \in TripLists
             /\ call = NoCall

QueryNext == SearchBuses \/ RouteSuggestions

QuerySpec == QueryInit /\ [][QueryNext]_vars

\* Book and cancel requests with the seat lists of OddSeatLists, on a bus
\* with all seats open or all but the first booked.
OddInit == /\ \E s \in {x \in Schedules : x.departureDate = NoDate} :
                \/ bus = FreshBus(500, s) /\ bookings = <<>>
                \/ bus = NearlyFullBus(500, s) /\ bookings = <<EarlierBooking(NearlyFullBus(500, s))>>
           /\ req = [r \in Requests |-> IdleReq]
           /\ now = 0
           /\ users = Users
           /\ conn = ReadyDb
           /\ web = [r \in Requests |-> IdleWeb]
           /\ trips = <<>>
           /\ call = NoCall

OddNext == \E r \in Requests : \/ BookStartOdd(r) \/ BookFindBus(r) \/ BookSaveBooking(r) \/ BookSaveBus(r)
                               \/ CancelStart(r) \/ CancelFindBooking(r) \/ CancelSaveBooking(r) \/ CancelFindBus(r) \/ CancelSaveBus(r)
                               \/ StorageFailure(r)

OddSpec == OddInit /\ [][OddNext]_vars

\* The module is loaded (connectDB() is called once, its failure logged) and
\* requests arrive.
ConnInit == /\ bus = NoBus /\ bookings = <<>>
            /\ req = [r \in Requests |-> IdleReq]
            /\ now = 0
            /\ users = Users
            /\ trips = <<>>
            /\ call = NoCall
            /\ \E uri \in BOOLEAN : conn = ConnectDB([NoDb EXCEPT !.uri = uri]).db
            /\ web = [r \in Requests |-> IdleWeb]

RequestStep(r) == StorageResolves(r) \/ StorageRejects(r) \/ HandlerRefuses(r)

ConnectSettles == ConnectResolves \/ ConnectRejects

ConnNext == \/ \E r \in Requests : EnsureDBConnection(r) \/ RequestStep(r)
            \/ ConnectSettles
            \/ ConnectionLost

ConnSpec == ConnInit /\ [][ConnNext]_vars

\* A connection attempt settles within serverSelectionTimeoutMS and a storage
\* operation within socketTimeoutMS; the handler's own code runs to its end.
ConnLiveSpec == ConnSpec /\ WF_vars(ConnectSettles) /\ \A r \in Requests : WF_vars(RequestStep(r))

\* A book request paying by UPI, with any of the UPI ids, on a bus with all
\* seats open.
UpiInit == /\ \E s \in {x \in Schedules : x.departureDate = NoDate} : bus = FreshBus(500, s)
           /\ bookings = <<>>
           /\ req = [r \in Requests |-> IdleReq]
           /\ now = 0
           /\ users = Users
           /\ conn = ReadyDb
           /\ web = [r \in Requests |-> IdleWeb]
           /\ trips = <<>>
           /\ \E upiId \in UpiIds : call = [NoCall EXCEPT !.upiId = upiId]

UpiNext == \E r \in {1} : BookStartUPI(r) \/ BookFindBus(r) \/ BookSaveBooking(r) \/ BookSaveBus(r) \/ StorageFailure(r)

UpiSpec == UpiInit /\ [][UpiNext]_vars

\* ======================================================== properties
Done(r) == req[r].pc = "done"

Overlap(r1, r2) == r1 \in req[r2].with \/ r2 \in req[r1].with

\* The handler of a well-formed request ran to its response: no storage
\* operation rejected.
Unfailed(r) == Done(r) /\ req[r].err \notin {"storage", "version", "validation"}

ActiveBookingsOf(n) == {b \in 1 .. Len(bookings) : ~bookings[b].isCancelled /\ n \in Range(bookings[b].seats)}

\* C1: in every reachable state the bus's availableSeats equals the number of
\* its seats with isBooked = false.
C1_AvailableCountsOpenSeats == bus.availableSeats = Cardinality(Places(bus) \ bus.isBooked)

\* C2: in every reachable state each seat of the bus is referenced by at most
\* one booking that is not cancelled.
C2_SeatInOneActiveBooking == \A i \in Places(bus) : Cardinality(ActiveBookingsOf(SeatNumber(i))) <= 1

\* Two book requests that overlapped, each arriving for exactly the one open
\* seat of the bus, both answered by their handler.
RacedForLastSeat(r1, r2) == /\ r1 # r2 /\ Overlap(r1, r2)
                            /\ req[r1].op = "book" /\ req[r2].op = "book"
                            /\ req[r1].last /\ req[r2].last
                            /\ Unfailed(r1) /\ Unfailed(r2)

\* C3: of two concurrent book requests for the same single remaining open
\* seat exactly one succeeds and the other is rejected with Conflict.
C3_OneWinnerForLastSeat == \A r1, r2 \in Requests : RacedForLastSeat(r1, r2) => \/ req[r1].res = 201 /\ req[r2].res = 400 /\ req[r2].err = "conflict"
                                                                                \/ req[r2].res = 201 /\ req[r1].res = 400 /\ req[r1].err = "conflict"

\* C4: when two concurrent book requests for the single remaining open seat
\* have both completed, availableSeats is 0 and exactly one booking record
\* references that seat.
C4_LastSeatBookedOnce == \A r1, r2 \in Requests : RacedForLastSeat(r1, r2) /\ InFlight = {} => /\ bus.availableSeats = 0
                                                                                               /\ Cardinality({b \in 1 .. Len(bookings) : req[r1].seats[1] \in Range(bookings[b].seats)}) = 1

\* C5: a completed book request has either both created its booking record
\* and written its seats to the bus, or done neither, also when a storage
\* operation failed.
C5_BookAllOrNothing == \A r \in Requests : req[r].op = "book" /\ Done(r) => (req[r].made # 0 <=> req[r].wrote)

\* C6: a book request with at least one requested seat booked on the bus it
\* loaded is rejected as a whole with Conflict: it creates no booking record
\* and writes nothing to the bus, also when other requested seats are free.
C6_ConflictRejectsWhole == \A r \in Requests : req[r].op = "book" /\ req[r].sawBooked => /\ Done(r) /\ req[r].res = 400 /\ req[r].err = "conflict"
                                                                                        /\ req[r].made = 0 /\ ~req[r].wrote

C6_Witness == \E r \in Requests : /\ req[r].op = "book" /\ Done(r) /\ req[r].err = "conflict" /\ req[r].with = {}
                                  /\ Len(req[r].seats) = 2 /\ req[r].conflict = 2
                                  /\ ~SeatUnavailable(bus, req[r].seats[1]) /\ SeatUnavailable(bus, req[r].seats[2])

\* C7: a book request naming a seat number that is not in the seat map of the
\* bus is rejected and creates no booking.
C7_UnknownSeatRejected == \A r \in Requests : req[r].op = "book" /\ req[r].sawMissing => req[r].made = 0 /\ req[r].res # 201

\* C8: the bus save of a successful book request lowers the stored
\* availableSeats by the number of seats requested, also when other requests
\* are in flight (no request has named a seat that is not on the bus).
C8_BookLowersCounterBySeatCount == [][\A r \in Requests : req[r].op = "book" /\ req[r].pc = "saveBus" /\ req'[r].res = 201 /\ (\A q \in Requests : ~req[q].sawMissing) => bus'.availableSeats = bus.availableSeats - Len(req[r].seats)]_vars

\* C9: two concurrent cancel requests for the same ticket do not both succeed.
C9_OneCancelWins == \A r1, r2 \in Requests : r1 # r2 /\ Overlap(r1, r2) /\ req[r1].op = "cancel" /\ req[r2].op = "cancel" /\ req[r1].lbk # 0 /\ req[r1].lbk = req[r2].lbk => ~(req[r1].res = 200 /\ req[r2].res = 200)

\* C10: a cancel request that finds its ticket already cancelled fails with
\* AlreadyCancelled and writes neither the booking (refundAmount,
\* cancellationDate) nor the bus (seats, availableSeats).
C10_AlreadyCancelledChangesNothing == \A r \in Requests : req[r].op = "cancel" /\ req[r].lbk # 0 /\ req[r].lcan => /\ Done(r) /\ req[r].res = 400 /\ req[r].err = "cancelled"
                                                                                                                 /\ req[r].made = 0 /\ ~req[r].wrote

C10_Witness == \E r \in Requests : /\ req[r].op = "cancel" /\ Done(r) /\ req[r].lcan /\ req[r].res = 400
                                   /\ bookings[req[r].lbk].refundAmount = RefundAmount(bookings[req[r].lbk].totalAmount)
                                   /\ bookings[req[r].lbk].cancellationDate # NoValue

\* C11: for every successful cancel the booking's refundAmount is exactly 0.8
\* times its totalAmount, and the same amount is returned to the caller.
C11_RefundIsExactlyEightTenths == \A r \in Requests : req[r].op = "cancel" /\ req[r].res = 200 => /\ bookings[req[r].lbk].refundAmount = RefundAmountExact(bookings[req[r].lbk].totalAmount)
                                                                                                  /\ req[r].refund = bookings[req[r].lbk].refundAmount

\* C12: the bus save of a successful cancel leaves every seat of the booking
\* released on the stored bus (isBooked false, bookedBy cleared) and raises the
\* stored availableSeats by exactly the number of seats it released.
C12_CancelReleasesAndCounts == [][\A r \in Requests : req[r].op = "cancel" /\ req[r].pc = "saveBus" /\ req'[r].res = 200 /\ (\A q \in Requests : Done(q)' /\ ~req[q].sawMissing) => /\ FoundPlaces(bus', bookings[req[r].lbk].seats) \cap (bus'.isBooked \cup UNION {bus'.bookedBy[u] : u \in Users}) = {}
                                                                                                                          /\ bus'.availableSeats = bus.availableSeats + Cardinality(bus.isBooked \ bus'.isBooked)]_vars

\* C13: a cancel request whose ticket id no booking has, or only a booking of
\* another user has, is answered NotFound and writes neither a booking nor
\* the bus; a cancel request that writes anything or succeeds is the owner's.
C13_OnlyOwnerCancels == \A r \in Requests : req[r].op = "cancel" => /\ (req[r].lbk = 0 => req[r].made = 0 /\ ~req[r].wrote /\ req[r].res # 200)
                                                                  /\ (req[r].lbk = 0 /\ Done(r) /\ req[r].err # "storage" => req[r].res = 404 /\ req[r].err = "notfound")
                                                                  /\ (req[r].lbk # 0 => bookings[req[r].lbk].ticketId = req[r].ticket /\ bookings[req[r].lbk].user = req[r].user)

C13_Witness == \E r \in Requests : /\ req[r].op = "cancel" /\ Done(r) /\ req[r].res = 404 /\ req[r].made = 0 /\ ~req[r].wrote
                                   /\ \E i \in 1 .. Len(bookings) : bookings[i].ticketId = req[r].ticket /\ bookings[i].user # req[r].user /\ ~bookings[i].isCancelled

\* C14 (as claimed): every step leaves every stored booking in place and
\* changes at most its isCancelled, status, refundAmount and cancellationDate.
C14_OnlyFourFieldsChange == [][/\ Len(bookings') >= Len(bookings)
                               /\ \A i \in 1 .. Len(bookings) : [bookings'[i] EXCEPT !.isCancelled = bookings[i].isCancelled, !.status = bookings[i].status, !.refundAmount = bookings[i].refundAmount, !.cancellationDate = bookings[i].cancellationDate] = bookings[i]]_vars

\* C14 (amended): every step leaves every stored booking in place and changes
\* at most its isCancelled, status, paymentStatus, refundAmount and
\* cancellationDate; ticketId, user, bus, seats, totalAmount, paymentMethod and
\* the journey snapshot stay as they were.
C14_OnlyRefundFieldsChange == [][/\ Len(bookings') >= Len(bookings)
                                 /\ \A i \in 1 .. Len(bookings) : [bookings'[i] EXCEPT !.isCancelled = bookings[i].isCancelled, !.status = bookings[i].status, !.paymentStatus = bookings[i].paymentStatus, !.refundAmount = bookings[i].refundAmount, !.cancellationDate = bookings[i].cancellationDate] = bookings[i]]_vars

C14_Witness == \E r \in Requests : /\ req[r].op = "cancel" /\ req[r].res = 200
                                   /\ bookings[req[r].lbk].isCancelled /\ bookings[req[r].lbk].status = "cancelled" /\ bookings[req[r].lbk].paymentStatus = "refunded"
                                   /\ bookings[req[r].lbk].seats # <<>> /\ bookings[req[r].lbk].journeyDateISO # NoDate

\* C15: the booking a book request stores has totalAmount = number of
\* requested seats times the price of the bus as the request loaded it, and
\* no step (cancellation, bus edit or any other) changes the totalAmount of a
\* stored booking.
C15_TotalAmountFixedAtBooking == [][/\ \A i \in 1 .. Len(bookings) : Len(bookings') >= i /\ bookings'[i].totalAmount = bookings[i].totalAmount
                                    /\ \A r \in Requests : req[r].op = "book" /\ req'[r].made # req[r].made => /\ Len(bookings') = Len(bookings) + 1
                                                                                                           /\ req'[r].made = Len(bookings')
                                                                                                           /\ bookings'[req'[r].made].totalAmount = Len(req[r].seats) * req[r].lbus.price]_vars

C15_Witness == \E r, q \in Requests : /\ req[r].op = "book" /\ req[r].made # 0 /\ Len(req[r].seats) = 2
                                      /\ req[q].op = "cancel" /\ req[q].res = 200 /\ req[q].lbk = req[r].made
                                      /\ bookings[req[r].made].totalAmount # Len(bookings[req[r].made].seats) * bus.price

\* C16: the bookings stored by two book requests (for seats that are on the
\* bus) never have the same ticketId.
C16_TicketIdsDiffer == \A r, q \in Requests : r # q /\ req[r].op = "book" /\ req[q].op = "book" /\ req[r].made # 0 /\ req[q].made # 0 /\ ~req[r].sawMissing /\ ~req[q].sawMissing
                                                => bookings[req[r].made].ticketId # bookings[req[q].made].ticketId

\* C17: after two initialize-bus calls that both succeeded, made one after
\* the other (no initialize-bus call arrived while another was being
\* handled), the bus has exactly 40 seats, numbered S01 .. S40 in order with no
\* number twice, and none of them is booked if there is no booking.
NoInitOverlap == \A p, q \in Requests : req[p].op = "init" /\ req[q].op = "init" => q \notin req[p].with

C17_InitializeTwice == \A r, q \in Requests : r # q /\ req[r].op = "init" /\ req[q].op = "init" /\ req[r].res = 200 /\ req[q].res = 200 /\ NoInitOverlap
                                                => /\ bus.seats = 40
                                                   /\ \A i, j \in Places(bus) : i # j => SeatNumber(i) # SeatNumber(j)
                                                   /\ SeatNumber(1) = "S01" /\ SeatNumber(bus.seats) = "S40"
                                                   /\ bookings = <<>> => bus.isBooked = {} /\ bus.bookedBy = NobodyBooked

C17_Witness == \E r, q \in Requests : /\ r # q /\ req[r].op = "init" /\ req[q].op = "init" /\ req[r].res = 200 /\ req[q].res = 200 /\ NoInitOverlap
                                      /\ req[r].wrote /\ ~req[q].wrote /\ bookings = <<>> /\ bus.seats = SeatCount

\* C18: a step changes the set of seat numbers of the bus only when the bus
\* has no seats and the step is the save of an initialize-bus request; no
\* step of a book or cancel request (or a bus edit) changes the number of
\* seats; and an initialize-bus request that finds the bus with seats ends
\* there, leaving the stored seats, with their isBooked and bookedBy flags,
\* as they were.
SeatNumbers(b) == {SeatNumber(i) : i \in Places(b)}

C18_SeatsChangeOnlyByInitialize == [][/\ SeatNumbers(bus') # SeatNumbers(bus) => bus.seats = 0
                                      /\ bus'.seats # bus.seats => \E r \in Requests : req[r].op = "init" /\ req[r].pc = "saveBus" /\ req'[r].wrote
                                      /\ \A r \in Requests : req[r].op = "init" /\ req[r].pc = "findBus" /\ bus.seats # 0 /\ req'[r] # req[r]
                                                                => /\ req'[r].pc = "done" /\ ~req'[r].wrote
                                                                   /\ bus'.seats = bus.seats /\ bus'.isBooked = bus.isBooked /\ bus'.bookedBy = bus.bookedBy]_vars

C18_Witness == \E r \in Requests : /\ req[r].op = "init" /\ req[r].res = 200 /\ ~req[r].wrote /\ req[r].with = {}
                                   /\ bus.seats = SeatCount /\ bus.isBooked # {} /\ bus.bookedBy # NobodyBooked

\* C19: a book request answered 400 or 404 has stored no booking and written
\* nothing to the bus, and the step that refuses it leaves the bus and the
\* bookings as they were; a request with an invalid e-mail, UPI id or
\* journeyDate or an unknown bus is so answered.
C19_RejectedBookChangesNothing == [][\A r \in Requests : req'[r].op = "book" =>
                                       /\ req'[r].res \in {400, 404} => /\ req'[r].made = 0 /\ ~req'[r].wrote
                                                                        /\ req[r].res = 0 => bus' = bus /\ bookings' = bookings
                                       /\ req'[r].flaw \in {"email", "upi", "date"} => req'[r].res = 400 /\ req'[r].err = "validation"
                                       /\ req'[r].flaw = "bus" => req'[r].res = 404 /\ req'[r].err = "notfound"]_vars

C19_Witness == \E r, q \in Requests : /\ req[r].op = "book" /\ Done(r) /\ req[r].flaw = "date" /\ req[r].res = 400
                                      /\ req[q].op = "book" /\ Done(q) /\ req[q].flaw = "bus" /\ req[q].res = 404
                                      /\ bookings # <<>> /\ ~bookings[1].isCancelled /\ bus.availableSeats = 1

\* C20: no step changes the journey snapshot of a stored booking, and two
\* downloads of the same ticket print the same journey date.
C20_JourneyFrozen == [][/\ \A i \in 1 .. Len(bookings) : /\ bookings'[i].journeyDate = bookings[i].journeyDate
                                                        /\ bookings'[i].journeyDateISO = bookings[i].journeyDateISO
                                                        /\ bookings'[i].departureTimeSnapshot = bookings[i].departureTimeSnapshot
                                                        /\ bookings'[i].arrivalTimeSnapshot = bookings[i].arrivalTimeSnapshot
                        /\ \A r, q \in Requests : /\ req'[r].op = "download" /\ req'[r].res = 200
                                                  /\ req'[q].op = "download" /\ req'[q].res = 200
                                                  /\ req'[r].lbk = req'[q].lbk
                                                  => req'[r].shown = req'[q].shown]_vars

\* C21: a download-ticket request for a booking whose bus or user is not in
\* the store is answered 404, as is one whose lookup finds no booking of the
\* caller with the ticket id.
C21_UnresolvedIsNotFound == \A r \in Requests : req[r].op = "download" /\ Done(r) =>
                              /\ req[r].flaw \in {"bus", "user"} => req[r].res = 404
                              /\ req[r].lbk = 0 => req[r].res = 404

\* C22: a search with from, to and a valid date is accepted exactly when the
\* UTC day of the date is at least tomorrow and at most tomorrow + 90 days,
\* tomorrow being the UTC day after that of the search.
UTCDay(d) == d \div Day

C22_DateWindow == call.op = "search" /\ call.from # "" /\ call.to # "" /\ call.date.given /\ call.date.at # NaN
                    => (call.res = 200 <=> UTCDay(call.at) + 1 <= UTCDay(call.date.at) /\ UTCDay(call.date.at) <= UTCDay(call.at) + 1 + 90)

\* C23: a search that is answered returns a trip exactly when the trip is
\* active, its from and to match the query, and it has no departureDate or a
\* departureDate on the requested date.
OnRequestedDate(trip) == trip.departureDate = NoValue \/ UTCDay(trip.departureDate) = UTCDay(call.date.at)

C23_SearchReturns == call.op = "search" /\ call.res = 200
                       => \A i \in 1 .. Len(trips) :
                            (\E k \in 1 .. Len(call.found) : call.found[k] = i)
                              <=> trips[i].isActive /\ RegexTest(Trim(call.from), trips[i].from) /\ RegexTest(Trim(call.to), trips[i].to) /\ OnRequestedDate(trips[i])

\* C24: the trips a search returns are in ascending order of departure time
\* in minutes since midnight, and each trip whose departure time is not a time
\* of day (hours:minutes, AM or PM optional) comes after all those whose is.
Numeral(s) == s # "" /\ \A i \in 1 .. Len(s) : IsDigit(Char(s, i))

Parseable(timeStr) == LET parts == SplitTime(Trim(timeStr))
                      IN /\ Len(parts) \in {2, 3}
                         /\ Numeral(parts[1]) /\ Numeral(parts[2])
                         /\ Len(parts) = 3 => ToUpperCase(parts[3]) \in {"AM", "PM"}

FoundTime(k) == trips[call.found[k]].departureTime

C24_SearchOrder == call.op = "search" /\ call.res = 200
                     => \A k, l \in 1 .. Len(call.found) : k < l =>
                          /\ Parseable(FoundTime(k)) /\ Parseable(FoundTime(l)) => TimeToMinutes(FoundTime(k)) <= TimeToMinutes(FoundTime(l))
                          /\ Parseable(FoundTime(l)) => Parseable(FoundTime(k))

\* C25: a search whose query is empty, or whose from and to match no active
\* trip, is answered with an empty list and not with an error (a date outside
\* the window set aside).
EmptyQuery == call.from = "" \/ call.to = "" \/ ~call.date.given

NoTripMatches == \A i \in 1 .. Len(trips) : ~(trips[i].isActive /\ RegexCompiles(Trim(call.from)) /\ RegexCompiles(Trim(call.to))
                                                   /\ RegexTest(Trim(call.from), trips[i].from) /\ RegexTest(Trim(call.to), trips[i].to))

C25_NoMatchIsEmptyList == call.op = "search" /\ (EmptyQuery \/ NoTripMatches) /\ call.err \notin {"invalid", "early", "late"}
                            => call.res = 200 /\ call.found = <<>>

\* C26: route-suggestions returns at most 10 strings, in ascending order with
\* none repeated, each the from or the to of an active trip on which it
\* matches the query text; a value found on inactive trips only is not
\* returned.
Suggested(s) == \E i \in 1 .. Len(trips) : /\ trips[i].isActive
                                            /\ \/ s = trips[i].from /\ RegexTest(Trim(call.q), trips[i].from)
                                               \/ s = trips[i].to /\ RegexTest(Trim(call.q), trips[i].to)

C26_Suggestions == call.op = "suggest" /\ call.res = 200
                     => /\ Len(call.routes) <= 10
                        /\ \A k, l \in 1 .. Len(call.routes) : k < l => StringLess(call.routes[k], call.routes[l])
                        /\ \A k \in 1 .. Len(call.routes) : Suggested(call.routes[k])

\* Thirteen values match, one of them on an inactive trip only; ten are returned.
C26_Witness == /\ call.op = "suggest" /\ call.res = 200 /\ Len(call.routes) = 10
               /\ Cardinality(DistinctOfAnyTrip(trips, "from", Trim(call.q))) > Cardinality(Distinct(trips, "from", Trim(call.q)))
               /\ Cardinality(Distinct(trips, "from", Trim(call.q))) > 10

\* C27: a UPI id is accepted exactly when it is local-part@provider with 2 to
\* 256 local characters (letters, digits, '.', '-', '_') and 2 to 64 letters
\* of provider; the examples are accepted and rejected as listed; a book
\* request paying by UPI with a rejected id makes no booking.
WellFormedUPI(s) == \E i \in 1 .. Len(s) :
                      /\ Char(s, i) = "@"
                      /\ LET local == SubSeq(s, 1, i - 1)
                             provider == SubSeq(s, i + 1, Len(s))
                         IN /\ 2 <= Len(local) /\ Len(local) <= 256 /\ \A j \in 1 .. Len(local) : IsLocalChar(Char(local, j))
                            /\ 2 <= Len(provider) /\ Len(provider) <= 64 /\ \A j \in 1 .. Len(provider) : IsLetter(Char(provider, j))

UpiRefused(r) == req[r].flaw = "upi" /\ req[r].res = 400

UpiExamples == \A r \in Requests : req[r].op = "book" =>
                 /\ call.upiId \in {"alice@upi", "bob.smith@paytm"} => ~UpiRefused(r)
                 /\ call.upiId \in {"alice", "@upi", "alice@"} => UpiRefused(r)

C27_ExactlyWellFormed == /\ \A r \in Requests : req[r].op = "book" =>
                              /\ UpiRefused(r) <=> ~WellFormedUPI(call.upiId)
                              /\ UpiRefused(r) => req[r].made = 0 /\ Done(r)
                         /\ (\E r \in Requests : UpiRefused(r)) => bookings = <<>>
                         /\ UpiExamples

C27_WellFormedOnceTrimmed == /\ \A r \in Requests : req[r].op = "book" =>
                                  /\ UpiRefused(r) <=> ~WellFormedUPI(Trim(call.upiId))
                                  /\ UpiRefused(r) => req[r].made = 0 /\ Done(r)
                             /\ (\E r \in Requests : UpiRefused(r)) => bookings = <<>>
                             /\ UpiExamples

C27_Witness == \E r \in Requests : UpiRefused(r) /\ Done(r) /\ call.upiId = "alice@"

\* C28: every request that arrives is in the end answered, with success or
\* with an error, also when the connection attempt or a storage operation
\* fails; a connection attempt begins only with the arrival of a request,
\* never on its own.
Answered(r) == web[r].pc = "done" /\ web[r].res \in {200, 400, 500, 503}

C28_EveryRequestAnswered == /\ \A r \in Requests : web[r].pc # "idle" ~> Answered(r)
                            /\ [][conn'.attempts > conn.attempts => \E r \in Requests : web[r].pc = "idle" /\ web'[r].pc # "idle"]_vars

C28_Witness == \E r, q \in Requests : Answered(r) /\ web[r].res = 503 /\ Answered(q) /\ web[q].res = 500

\* C29: next() is called for a request only while the connection is ready,
\* and a request answered 503 by ensureDBConnection has not reached its
\* handler.
C29_HandlerOnlyWhenReady == \A r \in Requests : /\ web[r].ran => web[r].ready
                                                /\ web[r].res = 503 => ~web[r].ran

\* C30: at most one connection attempt is in flight; a request that needs
\* the connection while an attempt is pending waits and starts none, the
\* settling of the attempt releases every waiting request, and a request
\* arriving while connected goes on with the cache as it is.
Arrives(r) == web[r].pc = "idle" /\ web'[r].pc # "idle"

C30_OneAttempt == /\ [](conn.attempts <= 1)
                  /\ [][/\ \A r \in Requests : Arrives(r) =>
                             /\ conn.connectionPromise = "pending" => web'[r].pc = "waiting" /\ conn'.attempts = conn.attempts
                             /\ conn.isConnected /\ conn.readyState = 1 => web'[r].pc = "handler" /\ conn' = conn
                        /\ conn'.attempts < conn.attempts => \A r \in Requests : web'[r].pc # "waiting"]_vars

C30_Witness == /\ conn.attempts = 1
               /\ \A r \in Requests : web[r].pc = "waiting"

\* C31: a book request answered with Conflict names the first seat of its
\* list, in the order of the list, that is not available on the bus (not on
\* the bus, or booked).
Available(b, n) == FindIndex(b, n) # 0 /\ FindIndex(b, n) \notin b.isBooked

C31_ConflictNamesFirstUnavailable == [][\A r \in Requests : req[r].op = "book" /\ req[r].pc = "findBus" /\ req'[r].err = "conflict"
                                          => /\ req'[r].conflict \in 1 .. Len(req[r].seats)
                                             /\ ~Available(bus, req[r].seats[req'[r].conflict])
                                             /\ \A j \in 1 .. req'[r].conflict - 1 : Available(bus, req[r].seats[j])]_vars

\* C32: when a book request succeeds, every seat of its list is marked
\* booked on the bus with the caller as bookedBy, and the booking it created
\* has status confirmed and the caller as user.
Succeeds(r) == req[r].op = "book" /\ req[r].res # 201 /\ req'[r].res = 201

SeatHeldBy(b, n, u) == FindIndex(b, n) # 0 /\ FindIndex(b, n) \in b.isBooked /\ FindIndex(b, n) \in b.bookedBy[u]

C32_BookMarksSeats == [][\A r \in Requests : Succeeds(r) =>
                           /\ \A k \in 1 .. Len(req[r].seats) : SeatHeldBy(bus', req[r].seats[k], req[r].user)
                           /\ req[r].made # 0 /\ bookings'[req[r].made].status = "confirmed" /\ bookings'[req[r].made].user = req[r].user]_vars

\* C33: once no request is in flight, a booking that is marked cancelled with
\* a refund has none of its seats still marked booked on the bus (a seat
\* that an active booking holds meanwhile set aside).
C33_CancelledMeansReleased == InFlight = {} =>
                                \A i \in 1 .. Len(bookings) : bookings[i].isCancelled /\ bookings[i].refundAmount # NoRefund =>
                                  \A n \in Range(bookings[i].seats) : ActiveBookingsOf(n) = {} => FindIndex(bus, n) \notin bus.isBooked

\* C34: two overlapping book or cancel requests on disjoint seats of the bus
\* (no seat listed twice) that both succeed leave the seat map and availableSeats as running one of them after
\* the other would.
SeatState(b) == [isBooked |-> b.isBooked, bookedBy |-> b.bookedBy, availableSeats |-> b.availableSeats]

SeatsOf(r) == IF req[r].op = "book" THEN req[r].seats ELSE bookings[req[r].lbk].seats

Succeeded(r) == Done(r) /\ ((req[r].op = "book" /\ req[r].res = 201) \/ (req[r].op = "cancel" /\ req[r].res = 200))

\* The bus before the requests: all seats open, or all but the first booked
\* by the earlier booking.
BusAtStart == IF bookings # <<>> /\ bookings[1].seats = AllButFirst THEN NearlyFullBus(bus.price, bus) ELSE FreshBus(bus.price, bus)

Alone(b, r) == IF req[r].op = "book" THEN BookedBus(b, req[r].seats, req[r].user) ELSE ReleasedBus(b, SeatsOf(r))

Plain(r) == /\ \A k \in 1 .. Len(SeatsOf(r)) : FindIndex(BusAtStart, SeatsOf(r)[k]) # 0
            /\ Cardinality(Range(SeatsOf(r))) = Len(SeatsOf(r))

C34_DisjointSerializable == \A r1, r2 \in Requests :
                              r1 # r2 /\ Succeeded(r1) /\ Succeeded(r2) /\ Plain(r1) /\ Plain(r2) /\ Overlap(r1, r2) /\ Range(SeatsOf(r1)) \cap Range(SeatsOf(r2)) = {}
                                => SeatState(bus) \in {SeatState(Alone(Alone(BusAtStart, r1), r2)), SeatState(Alone(Alone(BusAtStart, r2), r1))}

\* C35: availableSeats of the bus is never below 0 and never above the number
\* of its seats.
C35_AvailableInRange == 0 <= bus.availableSeats /\ bus.availableSeats <= bus.seats

\* C36: a book request that succeeds and then, with no other request
\* meanwhile, a cancel request for the booking it made that succeeds leave
\* the bus's seat map (isBooked and bookedBy of every seat) and availableSeats
\* as they were before the book request.
BookThenCancel(r1, r2) == /\ r1 # r2 /\ Succeeded(r1) /\ Succeeded(r2)
                          /\ req[r1].op = "book" /\ req[r2].op = "cancel" /\ req[r2].lbk = req[r1].made
                          /\ ~Overlap(r1, r2)

C36_CancelUndoesBook == \A r1, r2 \in Requests : BookThenCancel(r1, r2) => SeatState(bus) = SeatState(BusAtStart)

C36_Witness == \E r1, r2 \in Requests : BookThenCancel(r1, r2) /\ req[r1].seats = <<SeatLabel(1), UnknownSeat>> /\ bus.availableSeats = 1

\* C37: two initialize-bus requests that overlap and both succeed leave the
\* bus with exactly 40 seats, no seat number twice.
C37_ConcurrentInitialize == \A r, q \in Requests : r # q /\ req[r].op = "init" /\ req[q].op = "init" /\ req[r].res = 200 /\ req[q].res = 200 /\ Overlap(r, q)
                              => /\ bus.seats = SeatCount
                                 /\ \A i, j \in Places(bus) : i # j => SeatNumber(i) # SeatNumber(j)

\* C38: when a connection attempt fails, the cached promise is cleared and
\* isConnected is false, every request that waited on the attempt is answered
\* with the failure, and the next request that needs the connection starts a
\* new attempt.
AttemptFails == conn'.attempts < conn.attempts /\ conn'.readyState # 1

C38_FailedAttemptNotReused == [][/\ AttemptFails => /\ conn'.connectionPromise = "null" /\ ~conn'.isConnected
                                                    /\ \A r \in Requests : web[r].pc = "waiting" => web'[r].pc = "done" /\ web'[r].res = 503
                                 /\ \A r \in Requests : Arrives(r) /\ conn.uri /\ conn.attempts = 0 /\ ~conn.isConnected
                                      => conn'.attempts = 1 /\ conn'.connectionPromise = "pending" /\ web'[r].pc = "waiting"]_vars

C38_Witness == \E r, q \in Requests : web[r].res = 503 /\ web[q].pc = "waiting" /\ conn.uri /\ conn.attempts = 1

====
